---- MODULE Spec2Model ----
(***************************************************************************)
(* The task list of src/src/components/TodoApp.tsx as a state machine.     *)
(* The state is the component's six useState cells; one action per event   *)
(* handler.  React re-renders after every discrete event, so each handler  *)
(* reads the state left by the handler before it and runs to completion.   *)
(* The handlers read the list through the todos constant of the render     *)
(* they were created in (rendered); setTodos writes React's cell (todos).  *)
(* Which handlers can fire in a state is read off the render: a control    *)
(* that is not rendered (or is disabled) cannot raise its event.           *)
(***************************************************************************)
EXTENDS Integers, Sequences, FiniteSets

\* ---------------------------------------------------------------- bounds
\* The list is not bounded by the code; addTodo is cut off at MaxTodos tasks.
MaxTodos == 2

\* ------------------------------------------------------------ value sets
\* the Date.now() readings addTodo can take; a later reading is never smaller
Times == {1, 2}

\* the value of editingId when no task is under edit (null in the source)
Null == 0

Priorities == {"high", "medium", "low"}

Filters == {"all"} \cup Priorities

\* the priorities and filters the user picks in the two selects
PriorityChoices == {"high", "medium"}

FilterChoices == {"all", "high", "low"}

\* Strings are sequences of characters; " " stands for the whitespace
\* characters String.prototype.trim removes.
Drafts == { <<>>, <<" ", " ">>, <<"a">>, <<" ", "b", " ">> }

Keys == {"Enter", "Escape", "a"}

\* ------------------------------------------------------------ notifications
NoToast == "none"

ToastEmptyAdd == "Empty Task: Please enter a task before adding. [destructive]"

ToastAdded == "Task Added: Your task has been added successfully!"

ToastDeleted == "Task Deleted: Task removed successfully."

ToastEmptyEdit == "Empty Task: Task cannot be empty. [destructive]"

ToastUpdated == "Task Updated: Your task has been updated successfully!"

VARIABLES
    todos,        \* the list cell of useState<Todo[]>([]): what setTodos wrote last
    rendered,     \* the todos constant of the last render, which the handlers read
    newTodo,      \* draft text of the new-task input
    newPriority,  \* priority selected for the new task
    editingId,    \* id of the task under edit, or Null
    editText,     \* draft text of the edit input
    filter,       \* active priority filter
    lastNow,      \* the last Date.now() reading addTodo took, 0 before the first
    focused,      \* TRUE iff the edit input is mounted and holds the focus
    last          \* the handler that ran last and what it emitted

vars == <<todos, rendered, newTodo, newPriority, editingId, editText, filter, lastNow, focused, last>>

\* ---------------------------------------------------------------- helpers
IsSpace(c) == c = " "

RECURSIVE TrimStart(_)
TrimStart(s) == IF s # <<>> /\ IsSpace(Head(s)) THEN TrimStart(Tail(s)) ELSE s

RECURSIVE TrimEnd(_)
TrimEnd(s) == IF s # <<>> /\ IsSpace(s[Len(s)]) THEN TrimEnd(SubSeq(s, 1, Len(s) - 1)) ELSE s

\* mutants: the bugs the properties are checked to notice
trimStartOnly(s) == TrimStart(s)

\* String.prototype.trim
trim(s) == TrimEnd(TrimStart(s))

\* the Todo object addTodo builds from the drafts and the clock reading t
NewTodoRec(t) ==
    [id |-> t, text |-> trim(newTodo), priority |-> newPriority,
     completed |-> FALSE, createdAt |-> t]

PrependAtEnd(todo, list) == list \o <<todo>>

\* [todo, ...todos]
Prepend(todo, list) == <<todo>> \o list

\* todos.filter(todo => todo.id !== id)
RemoveId(list, id) == SelectSeq(list, LAMBDA t : t.id # id)

SetTextEverywhere(list, id, text) == [i \in DOMAIN list |-> [list[i] EXCEPT !.text = text]]

SetTextMovesToTop(list, id, text) ==
    SelectSeq([i \in DOMAIN list |-> [list[i] EXCEPT !.text = text]], LAMBDA t : t.id = id)
        \o SelectSeq(list, LAMBDA t : t.id # id)

SetTextRebuilds(list, id, text) ==
    [i \in DOMAIN list |->
        IF list[i].id = id
        THEN [id |-> id, text |-> text, priority |-> "medium", completed |-> FALSE,
              createdAt |-> lastNow]
        ELSE list[i]]

\* todos.map(todo => todo.id === id ? { ...todo, text } : todo)
SetText(list, id, text) ==
    [i \in DOMAIN list |-> IF list[i].id = id THEN [list[i] EXCEPT !.text = text] ELSE list[i]]

FlipCompletedSets(list, id) ==
    [i \in DOMAIN list |->
        IF list[i].id = id THEN [list[i] EXCEPT !.completed = TRUE] ELSE list[i]]

\* todos.map(todo => todo.id === id ? { ...todo, completed: !todo.completed } : todo)
FlipCompleted(list, id) ==
    [i \in DOMAIN list |->
        IF list[i].id = id THEN [list[i] EXCEPT !.completed = ~list[i].completed] ELSE list[i]]

VisibleNoAll(list, f) == SelectSeq(list, LAMBDA t : t.priority = f)

\* the projection the list is rendered from
Visible(list, f) == SelectSeq(list, LAMBDA t : f = "all" \/ t.priority = f)

filteredTodos == Visible(rendered, filter)

Range(s) == {s[i] : i \in DOMAIN s}

\* the edit <Input> is rendered for a visible task whose id is editingId
EditInputShown == \E t \in Range(filteredTodos) : t.id = editingId

IsBlankUntrimmed(s) == s = <<>>

\* !newTodo.trim() and !editText.trim()
IsBlank(s) == trim(s) = <<>>

KeptDraft == newTodo

\* setNewTodo('') after a successful add
ClearedDraft == <<>>

SeedDraftStale(todo) == editText

\* setEditText(todo.text) in startEdit
SeedDraft(todo) == todo.text

\* last is a history variable: the handler that ran last and the notification
\* it emitted (NoToast if none).  A blur of the edit input, a startEdit
\* and a cancel, also record the edit they found: the editing id, the edit
\* draft and the list as they were when the gesture began (a startEdit that
\* directly follows a blur keeps what the blur recorded).
Ran(op, toast) ==
    [op |-> op, toast |-> toast, was |-> Null, wasText |-> <<>>, wasTodos |-> <<>>]

\* addTodo, deleteTodo and toggleComplete keep the edit and the draft of a
\* blur that saved directly before them
After(op, toast) ==
    IF last.op = "blur" /\ last.toast = ToastUpdated
    THEN [Ran(op, toast) EXCEPT !.was = last.was, !.wasText = last.wasText]
    ELSE Ran(op, toast)

RerenderMissed(list) == rendered

\* React runs TodoApp again once the event's handler has returned: the
\* handlers and the projection of the new render read the list just written
Rerender(list) == list

Found(op, toast) ==
    [op |-> op, toast |-> toast, was |-> editingId, wasText |-> editText, wasTodos |-> rendered]

\* ------------------------------------------------------------------- Init
Init ==
    /\ todos = <<>>
    /\ rendered = <<>>
    /\ newTodo = <<>>
    /\ newPriority = "medium"
    /\ editingId = Null
    /\ editText = <<>>
    /\ filter = "all"
    /\ lastNow = 0
    /\ focused = FALSE
    /\ last = Ran("init", NoToast)

\* ---------------------------------------------------------------- actions
\* onChange of the new-task input
setNewTodo(v) ==
    /\ ~focused
    /\ v # newTodo
    /\ newTodo' = v
    /\ last' = Ran("setNewTodo", NoToast)
    /\ UNCHANGED <<todos, rendered, newPriority, editingId, editText, filter, lastNow, focused>>

\* onValueChange of the new-task priority select
setNewPriority(p) ==
    /\ ~focused
    /\ p # newPriority
    /\ newPriority' = p
    /\ last' = Ran("setNewPriority", NoToast)
    /\ UNCHANGED <<todos, rendered, newTodo, editingId, editText, filter, lastNow, focused>>

addTodo ==
    /\ ~focused
    /\ IF IsBlank(newTodo)
       THEN /\ last' = After("addTodo", ToastEmptyAdd)
            /\ UNCHANGED <<todos, rendered, newTodo, newPriority, editingId, editText, filter,
                           lastNow, focused>>
       ELSE /\ Len(rendered) < MaxTodos
            /\ \E t \in Times :
                 /\ t >= lastNow
                 /\ lastNow' = t
                 /\ todos' = Prepend(NewTodoRec(t), rendered)
            /\ rendered' = Rerender(todos')
            /\ newTodo' = ClearedDraft
            /\ newPriority' = "medium"
            /\ last' = After("addTodo", ToastAdded)
            /\ UNCHANGED <<editingId, editText, filter, focused>>

\* onKeyPress of the new-task input
handleKeyPress(key) ==
    IF key = "Enter" THEN addTodo ELSE ~focused /\ UNCHANGED vars

deleteTodoClearsEdit(id) ==
    /\ ~focused
    /\ todos' = RemoveId(rendered, id)
    /\ rendered' = Rerender(todos')
    /\ editingId' = IF editingId = id THEN Null ELSE editingId
    /\ last' = After("deleteTodo", ToastDeleted)
    /\ UNCHANGED <<newTodo, newPriority, editText, filter, lastNow, focused>>

deleteTodo(id) ==
    /\ ~focused
    /\ todos' = RemoveId(rendered, id)
    /\ rendered' = Rerender(todos')
    /\ last' = After("deleteTodo", ToastDeleted)
    /\ UNCHANGED <<newTodo, newPriority, editingId, editText, filter, lastNow, focused>>

\* the edit button of a visible row; the input it mounts has autoFocus
startEdit(todo) ==
    /\ ~focused
    /\ editingId # todo.id
    /\ ~todo.completed
    /\ editingId' = todo.id
    /\ editText' = SeedDraft(todo)
    /\ focused' = TRUE
    /\ last' = IF last.op = "blur"
               THEN [last EXCEPT !.op = "startEdit", !.toast = NoToast]
               ELSE Found("startEdit", NoToast)
    /\ UNCHANGED <<todos, rendered, newTodo, newPriority, filter, lastNow>>

\* onChange of the edit input
setEditText(v) ==
    /\ focused
    /\ v # editText
    /\ editText' = v
    /\ last' = Ran("setEditText", NoToast)
    /\ UNCHANGED <<todos, rendered, newTodo, newPriority, editingId, filter, lastNow, focused>>

\* clicking into the edit input that lost the focus
focusEdit ==
    /\ ~focused
    /\ EditInputShown
    /\ focused' = TRUE
    /\ last' = Ran("focusEdit", NoToast)
    /\ UNCHANGED <<todos, rendered, newTodo, newPriority, editingId, editText, filter, lastNow>>

\* saveEdit, raised by via: "Enter" (key), "blur" (onBlur) or "button" (Save)
saveEdit(via) ==
    /\ EditInputShown
    /\ LET note(toast) == IF via = "blur" THEN Found("blur", toast)
                          ELSE Ran("saveEdit", toast)
       IN IF IsBlank(editText)
          THEN /\ last' = note(ToastEmptyEdit)
               /\ focused' = (focused /\ via # "blur")
               /\ UNCHANGED <<todos, rendered, newTodo, newPriority, editingId, editText, filter,
                              lastNow>>
          ELSE /\ todos' = SetText(rendered, editingId, trim(editText))
               /\ rendered' = Rerender(todos')
               /\ editingId' = Null
               /\ editText' = <<>>
               /\ focused' = FALSE
               /\ last' = note(ToastUpdated)
               /\ UNCHANGED <<newTodo, newPriority, filter, lastNow>>

\* onBlur of the edit input: the focus leaves it for another control
blurEdit == focused /\ saveEdit("blur")

\* the Save button of the row under edit
clickSave == ~focused /\ saveEdit("button")

cancelEditKeepsDraft ==
    /\ editingId' = Null
    /\ focused' = FALSE
    /\ last' = Found("cancel", NoToast)
    /\ UNCHANGED <<todos, rendered, newTodo, newPriority, editText, filter, lastNow>>

cancelEditValidates ==
    IF IsBlank(editText)
    THEN /\ last' = Found("cancel", ToastEmptyEdit)
         /\ UNCHANGED <<todos, rendered, newTodo, newPriority, editingId, editText, filter, lastNow,
                        focused>>
    ELSE /\ editingId' = Null
         /\ editText' = <<>>
         /\ focused' = FALSE
         /\ last' = Found("cancel", NoToast)
         /\ UNCHANGED <<todos, rendered, newTodo, newPriority, filter, lastNow>>

\* the Escape branch of handleEditKeyPress; it records the edit it found
cancelEdit ==
    /\ editingId' = Null
    /\ editText' = <<>>
    /\ focused' = FALSE
    /\ last' = Found("cancel", NoToast)
    /\ UNCHANGED <<todos, rendered, newTodo, newPriority, filter, lastNow>>

\* onKeyPress of the edit input
handleEditKeyPress(key) ==
    /\ focused
    /\ IF key = "Enter" THEN saveEdit("Enter")
       ELSE IF key = "Escape" THEN cancelEdit
       ELSE UNCHANGED vars

toggleComplete(id) ==
    /\ ~focused
    /\ todos' = FlipCompleted(rendered, id)
    /\ rendered' = Rerender(todos')
    /\ last' = After("toggleComplete", NoToast)
    /\ UNCHANGED <<newTodo, newPriority, editingId, editText, filter, lastNow, focused>>

\* onValueChange of the filter select
setFilter(f) ==
    /\ ~focused
    /\ f # filter
    /\ filter' = f
    /\ last' = Ran("setFilter", NoToast)
    /\ UNCHANGED <<todos, rendered, newTodo, newPriority, editingId, editText, lastNow, focused>>

Next ==
    \/ \E v \in Drafts : setNewTodo(v)
    \/ \E p \in PriorityChoices : setNewPriority(p)
    \/ addTodo
    \/ \E key \in Keys : handleKeyPress(key)
    \/ \E t \in Range(filteredTodos) : deleteTodo(t.id)
    \/ \E t \in Range(filteredTodos) : startEdit(t)
    \/ \E v \in Drafts : setEditText(v)
    \/ focusEdit
    \/ blurEdit
    \/ clickSave
    \/ \E key \in Keys : handleEditKeyPress(key)
    \/ \E t \in Range(filteredTodos) : toggleComplete(t.id)
    \/ \E f \in FilterChoices : setFilter(f)

Spec == Init /\ [][Next]_vars

\* ------------------------------------------------------------ properties
\* The properties say what a string's trimmed form is on their own terms:
\* r is s without its leading and trailing whitespace.
AllSpaces(s) == \A i \in DOMAIN s : s[i] = " "

IsTrimmed(r) == r = <<>> \/ (r[1] # " " /\ r[Len(r)] # " ")

IsTrimOf(r, s) ==
    /\ IsTrimmed(r)
    /\ \E i \in 0..Len(s) :
         /\ i + Len(r) <= Len(s)
         /\ AllSpaces(SubSeq(s, 1, i))
         /\ SubSeq(s, i + 1, i + Len(r)) = r
         /\ AllSpaces(SubSeq(s, i + Len(r) + 1, Len(s)))

\* the step just taken is a successful add / a rejected add
AddedStep == last'.op = "addTodo" /\ last'.toast = ToastAdded

IdsUnique == \A i, j \in DOMAIN todos : i # j => todos[i].id # todos[j].id

\* focus is held only by a rendered edit input
FocusOnShownInput == focused => EditInputShown

\* C1: ids are unique: no two tasks in the list share an id, and an id that
\* add gave to a task is never given to a later task.  Readings never
\* decrease, so an add gives an id again exactly when it reads the value the
\* add before it read (lastNow).
C1_Original ==
    [][IdsUnique' /\ (AddedStep => todos'[1].id # lastNow)]_vars

\* C2: an add whose draft has a non-empty trimmed form lengthens the list by
\* one; the new task is first, with the trimmed draft as text, the selected
\* priority and completed = FALSE; the former tasks follow it unchanged and
\* in their order.
C2_AddPrepends ==
    [][(last'.op = "addTodo" /\ ~IsTrimOf(<<>>, newTodo)) =>
         /\ Len(todos') = Len(todos) + 1
         /\ IsTrimOf(todos'[1].text, newTodo)
         /\ todos'[1].priority = newPriority
         /\ todos'[1].completed = FALSE
         /\ SubSeq(todos', 2, Len(todos')) = todos]_vars

\* a successful add of a padded draft, with high priority, onto a list whose
\* one task is completed
C2_Witness ==
    /\ last.op = "addTodo" /\ last.toast = ToastAdded
    /\ Len(todos) = 2
    /\ todos[1].text = <<"b">> /\ todos[1].priority = "high" /\ ~todos[1].completed
    /\ todos[2].text = <<"a">> /\ todos[2].completed

\* C3: an add whose draft is empty or whitespace-only emits the destructive
\* "Empty Task" notice and changes neither the list, the new-task draft, the
\* selected priority, the editing id, the edit draft nor the filter.
C3_EmptyAddRejected ==
    [][(last'.op = "addTodo" /\ IsTrimOf(<<>>, newTodo)) =>
         /\ last'.toast = ToastEmptyAdd
         /\ UNCHANGED <<todos, newTodo, newPriority, editingId, editText, filter>>]_vars

\* a whitespace-only draft was rejected while the list, the edit state and
\* the filter were off their defaults
C3_Witness ==
    /\ last.op = "addTodo" /\ last.toast = ToastEmptyAdd
    /\ newTodo = <<" ", " ">>
    /\ newPriority = "high"
    /\ todos # <<>>
    /\ editingId # Null
    /\ filter = "high"

\* C4: every task's text is non-empty and has no leading or trailing
\* whitespace.
C4_TextsTrimmed ==
    \A i \in DOMAIN todos : todos[i].text # <<>> /\ IsTrimmed(todos[i].text)

\* a padded draft was added and a padded edit draft was saved
C4_Witness ==
    /\ last.toast = ToastUpdated
    /\ Len(todos) = 2
    /\ todos[1].text = <<"b">> /\ todos[2].text = <<"b">>
    /\ todos[1].id # todos[2].id
\* the step just taken is a deleteTodo / a saveEdit by whatever trigger
DeleteStep == last'.op = "deleteTodo"

SaveStep == last'.op \in {"saveEdit", "blur"}

\* list without its k-th task
Without(list, k) == SubSeq(list, 1, k - 1) \o SubSeq(list, k + 1, Len(list))

\* C5: delete(id) for an id in the list shortens the list by exactly one
\* task, leaves no task with that id and keeps the other tasks unchanged in
\* their order.  (deleteTodo is only ever raised by the delete button of a
\* rendered task, so its id is in the list.)
C5_Original ==
    [][DeleteStep =>
         \E k \in DOMAIN todos :
            /\ todos' = Without(todos, k)
            /\ \A i \in DOMAIN todos' : todos'[i].id # todos[k].id]_vars

\* C6: while edit mode is active exactly one task of the list has the editing
\* id.  Stated for the lists whose ids are all different, where "more than
\* one" cannot happen and "never zero" is what is left of the claim.
C6_Original ==
    (IdsUnique /\ editingId # Null) =>
        Cardinality({i \in DOMAIN todos : todos[i].id = editingId}) = 1

\* C7: a saveEdit whose draft has a non-empty trimmed form gives the task
\* under edit (each task whose id is the editing id) the trimmed draft as
\* text and leaves its id, priority, completed and createdAt as they were;
\* every other task and the order of the list are unchanged; edit mode is
\* cleared and the "Task Updated" notification is emitted.
C7_SaveEditReplacesText ==
    [][(SaveStep /\ ~IsTrimOf(<<>>, editText)) =>
         /\ Len(todos') = Len(todos)
         /\ \A i \in DOMAIN todos :
               IF todos[i].id = editingId
               THEN /\ IsTrimOf(todos'[i].text, editText)
                    /\ todos'[i].id = todos[i].id
                    /\ todos'[i].priority = todos[i].priority
                    /\ todos'[i].completed = todos[i].completed
                    /\ todos'[i].createdAt = todos[i].createdAt
               ELSE todos'[i] = todos[i]
         /\ editingId' = Null
         /\ editText' = <<>>
         /\ last'.toast = ToastUpdated]_vars

\* a padded draft was saved over the second of two tasks, one of high
\* priority, and the first task, with another id, kept its text
C7_Witness ==
    /\ last.op = "saveEdit" /\ last.toast = ToastUpdated
    /\ Len(todos) = 2
    /\ todos[1].text = <<"a">> /\ todos[1].id # todos[2].id
    /\ todos[2].text = <<"b">> /\ todos[2].priority = "high"
    /\ editingId = Null

\* C8: a saveEdit whose draft is empty or whitespace-only emits the
\* destructive "Empty Task" notice and leaves the editing id, the edit draft
\* and the list as they were.
C8_EmptySaveRejected ==
    [][(SaveStep /\ IsTrimOf(<<>>, editText)) =>
         /\ last'.toast = ToastEmptyEdit
         /\ editingId' = editingId /\ editingId' # Null
         /\ UNCHANGED <<editText, todos>>]_vars

\* a whitespace-only edit draft was rejected on blur: the task is still under
\* edit with that draft and its stored text
C8_Witness ==
    /\ last.op = "blur" /\ last.toast = ToastEmptyEdit
    /\ editingId # Null
    /\ editText = <<" ", " ">>
    /\ \E i \in DOMAIN todos : todos[i].id = editingId /\ todos[i].text = <<"a">>

\* C9: after each successful add and each successful saveEdit the new-task
\* draft, the selected priority, the editing id, the edit draft and the
\* filter are all at their defaults.
C9_Original ==
    last.toast \in {ToastAdded, ToastUpdated} =>
        /\ newTodo = <<>>
        /\ newPriority = "medium"
        /\ editingId = Null
        /\ editText = <<>>
        /\ filter = "all"

\* C9 as amended: a successful add puts the new-task draft and the selected
\* priority at their defaults and leaves the editing id, the edit draft and
\* the filter as they were; a successful saveEdit puts the editing id and the
\* edit draft at their defaults and leaves the new-task draft, the selected
\* priority and the filter as they were.
C9_ResetsOwnInputs ==
    [][/\ AddedStep =>
            /\ newTodo' = <<>> /\ newPriority' = "medium"
            /\ UNCHANGED <<editingId, editText, filter>>
       /\ (SaveStep /\ last'.toast = ToastUpdated) =>
            /\ editingId' = Null /\ editText' = <<>>
            /\ UNCHANGED <<newTodo, newPriority, filter>>]_vars

\* a successful add that found, and left, a task under edit, a blank edit
\* draft and the filter on high
C9_Witness ==
    /\ last.op = "addTodo" /\ last.toast = ToastAdded
    /\ newTodo = <<>> /\ newPriority = "medium"
    /\ editingId # Null
    /\ editText = <<" ", " ">>
    /\ filter = "high"

\* a successful saveEdit that found, and left, a new-task draft, the priority
\* on high and the filter on high
C9_WitnessSave ==
    /\ last.toast = ToastUpdated
    /\ editingId = Null /\ editText = <<>>
    /\ newTodo = <<"a">> /\ newPriority = "high"
    /\ filter = "high"

\* the gesture that started the edit in progress found another task under edit
AbandonedOther == last.op = "startEdit" /\ last.was # Null /\ last.was # editingId

\* C10: starting an edit on task B while task A is under edit abandons A's
\* edit without saving it: the list is as it was when the gesture began,
\* also when the blur of A's edit input came before the click on B's button.
C10_Original ==
    AbandonedOther => todos = last.wasTodos

\* C10 as amended: startEdit on B puts B in edit mode with the edit draft
\* seeded from B's text and changes no task itself.  A's draft is dropped
\* unsaved only if its trimmed form is empty; otherwise the blur of A's edit
\* input, which comes before the click on B's button, has stored the trimmed
\* draft as the text of the task(s) with A's id and changed nothing else.
C10_BlurSavesThenStartEdit ==
    last.op = "startEdit" =>
        /\ focused
        /\ \E t \in Range(filteredTodos) : t.id = editingId /\ editText = t.text
        /\ Len(todos) = Len(last.wasTodos)
        /\ \A i \in DOMAIN todos :
              IF last.was # Null /\ last.wasTodos[i].id = last.was
                 /\ ~IsTrimOf(<<>>, last.wasText)
              THEN /\ IsTrimOf(todos[i].text, last.wasText)
                   /\ [todos[i] EXCEPT !.text = last.wasTodos[i].text] = last.wasTodos[i]
              ELSE todos[i] = last.wasTodos[i]

\* B is under edit, and the blur before the click saved A's draft "b" over
\* A's text "a"
C10_Witness ==
    /\ AbandonedOther
    /\ \E i \in DOMAIN todos :
          /\ todos[i].id = last.was
          /\ last.wasTodos[i].text = <<"a">>
          /\ todos[i].text = <<"b">>
    /\ \E i \in DOMAIN todos : todos[i].id = editingId /\ todos[i].text = editText
\* the step just taken is the cancel of an edit
CancelStep == last'.op = "cancel"

\* C11: the cancel action (Escape in the edit input) clears edit mode and
\* empties the edit draft, whatever the draft was; it validates nothing,
\* emits no notification and leaves the list, the new-task draft, the
\* selected priority and the filter as they were.
C11_CancelDiscardsDraft ==
    [][CancelStep =>
         /\ editingId' = Null
         /\ editText' = <<>>
         /\ last'.toast = NoToast
         /\ UNCHANGED <<todos, newTodo, newPriority, filter>>]_vars

\* an edit whose draft had been emptied was cancelled, with a new-task draft
\* typed, the priority on high and the filter on high
C11_Witness ==
    /\ last.op = "cancel" /\ last.toast = NoToast
    /\ last.was # Null /\ last.wasText = <<>>
    /\ editingId = Null /\ editText = <<>>
    /\ todos # <<>> /\ todos = last.wasTodos
    /\ newTodo = <<"a">> /\ newPriority = "high" /\ filter = "high"

\* an edit with a non-blank draft was cancelled and the stored text stayed
C11_WitnessDraft ==
    /\ last.op = "cancel"
    /\ last.wasText = <<" ", "b", " ">>
    /\ \E i \in DOMAIN todos : todos[i].id = last.was /\ todos[i].text = <<"a">>
\* the step just taken is a toggleComplete
ToggleStep == last'.op = "toggleComplete"

\* C12: a toggleComplete(id) negates the completed flag of the task(s) with
\* that id and changes nothing else: not their other fields, not the other
\* tasks or the order, not the drafts, the edit state or the filter, and it
\* emits no notification.  The same toggle can be raised again at once, and
\* it gives back the list as it was before the first.
C12_ToggleInvolution ==
    [][ToggleStep =>
         \E t \in Range(filteredTodos) :
            /\ Len(todos') = Len(todos)
            /\ \A i \in DOMAIN todos :
                  todos'[i] = IF todos[i].id = t.id
                              THEN [todos[i] EXCEPT !.completed = ~todos[i].completed]
                              ELSE todos[i]
            /\ ~focused'
            /\ \E u \in Range(Visible(todos', filter')) : u.id = t.id
            /\ FlipCompleted(todos', t.id) = todos
            /\ UNCHANGED <<newTodo, newPriority, editingId, editText, filter>>
            /\ last'.toast = NoToast]_vars

\* the second of two tasks was toggled to completed under the filter high,
\* while the first was under edit
C12_Witness ==
    /\ last.op = "toggleComplete" /\ last.toast = NoToast
    /\ Len(todos) = 2
    /\ todos[2].completed /\ todos[2].priority = "high"
    /\ ~todos[1].completed
    /\ editingId = todos[1].id /\ todos[1].id # todos[2].id
    /\ filter = "high"
\* the positions of list a filter keeps
KeptAt(list, f) == {i \in DOMAIN list : f = "all" \/ list[i].priority = f}

\* v is list cut down to the positions f keeps, in the order of list
IsFilterOf(v, list, f) ==
    /\ Len(v) = Cardinality(KeptAt(list, f))
    /\ \A i \in KeptAt(list, f) :
          v[Cardinality({j \in KeptAt(list, f) : j <= i})] = list[i]

VisibleIsFiltered ==
    /\ IsFilterOf(filteredTodos, todos, filter)
    /\ filter = "all" => filteredTodos = todos

\* C13: the visible list is always the tasks of the list whose priority is
\* the filter, in the order of the list, and the whole list under the filter
\* all; setFilter changes the filter and nothing else, the list least of all.
C13_VisibleIsFilteredList ==
    /\ []VisibleIsFiltered
    /\ [][last'.op = "setFilter" =>
             /\ filter' # filter
             /\ UNCHANGED <<todos, newTodo, newPriority, editingId, editText>>]_vars

\* the filter was just set to high on a list of a medium and a high task:
\* only the second task is visible
C13_Witness ==
    /\ last.op = "setFilter"
    /\ filter = "high"
    /\ Len(todos) = 2
    /\ todos[1].priority = "medium" /\ todos[2].priority = "high"
    /\ filteredTodos = <<todos[2]>>
\* C14: the editing id changes only in three ways: from none to a task's
\* id and from one task's id to another's by startEdit, and from a task's id
\* to none by a successful saveEdit or by cancel.  add, delete,
\* toggleComplete, setFilter and a rejected saveEdit leave it as it is.
C14_EditingTransitions ==
    [][/\ editingId' # editingId =>
             \/ editingId' # Null /\ last'.op = "startEdit"
             \/ /\ editingId' = Null
                /\ \/ last'.op = "cancel"
                   \/ last'.op \in {"saveEdit", "blur"} /\ last'.toast = ToastUpdated
       /\ last'.op \in {"addTodo", "deleteTodo", "toggleComplete", "setFilter"} =>
             editingId' = editingId
       /\ last'.toast = ToastEmptyEdit => editingId' = editingId]_vars

\* startEdit moved the editing id from one task straight to another: the
\* first task's draft was blank, so the blur before the click saved nothing
C14_Witness ==
    /\ last.op = "startEdit"
    /\ last.was # Null /\ last.was # editingId /\ editingId # Null
    /\ last.wasText = <<" ", " ">>
    /\ todos = last.wasTodos
\* v is list cut down to the positions in S, in the order of list
IsSubAt(v, list, S) ==
    /\ Len(v) = Cardinality(S)
    /\ \A i \in S : v[Cardinality({j \in S : j <= i})] = list[i]

\* the tasks are in the list newest first, going by their creation times
NewestFirst == \A i, j \in DOMAIN todos : i < j => todos[i].createdAt >= todos[j].createdAt

Birth(t) == [priority |-> t.priority, createdAt |-> t.createdAt]

Births(list) == [i \in DOMAIN list |-> Birth(list[i])]

\* C16: a task's priority and createdAt never change while it is in the
\* list.  An add gives the new task the selected priority and the reading it
\* took and leaves those of the tasks behind it; a delete leaves those of
\* the tasks it keeps; under every other operation each task keeps its place,
\* its priority and its createdAt.
C16_PriorityAndCreatedAtFixed ==
    [][IF AddedStep
       THEN /\ Tail(Births(todos')) = Births(todos)
            /\ todos'[1].priority = newPriority
            /\ todos'[1].createdAt = lastNow'
       ELSE IF DeleteStep
       THEN \E S \in SUBSET DOMAIN todos : IsSubAt(Births(todos'), Births(todos), S)
       ELSE todos' = todos \/ Births(todos') = Births(todos)]_vars

\* a task created with high priority at the first reading has since been
\* edited and completed, and another task was added at a later reading
C16_Witness ==
    /\ last.op = "toggleComplete"
    /\ Len(todos) = 2
    /\ todos[2].priority = "high" /\ todos[2].createdAt = 1
    /\ todos[2].text = <<"b">> /\ todos[2].completed
    /\ todos[1].priority = "medium" /\ todos[1].createdAt = 2 /\ todos[1].text = <<"b">>
    /\ lastNow = 2
\* C17: the task under edit is never a completed one, so saveEdit never
\* replaces the text of a completed task.  Stated for the lists whose ids are
\* all different, where the task under edit is a single task.
C17_Original ==
    IdsUnique => \A i \in DOMAIN todos : todos[i].id = editingId => ~todos[i].completed

\* saveEdit has just replaced the text of a completed task, the only task
\* there is
C17_CompletedTaskSaved ==
    /\ last.op = "saveEdit" /\ last.toast = ToastUpdated
    /\ Len(todos) = 1
    /\ todos[1].completed /\ todos[1].text = <<"b">>

\* the rows a handler that ran directly after a blur took over from the list
\* the blur left: all of them, but for the row addTodo put in front
TakenOver ==
    DOMAIN todos \ (IF last.op = "addTodo" /\ last.toast = ToastAdded THEN {1} ELSE {})

C18_WitnessAdd ==
    /\ last.op = "addTodo" /\ last.toast = ToastAdded
    /\ last.was # Null /\ last.wasText = <<" ", "b", " ">>
    /\ Len(todos) = 2
    /\ todos[1].id # last.was /\ todos[1].text = <<"a">>
    /\ todos[2].id = last.was /\ todos[2].text = <<"b">>

\* the same blur, followed by the deleteTodo of a click on another row's button
C18_WitnessDelete ==
    /\ last.op = "deleteTodo"
    /\ last.was # Null /\ last.wasText = <<" ", "b", " ">>
    /\ Len(todos) = 1 /\ lastNow = 2
    /\ todos[1].id = last.was /\ todos[1].text = <<"b">>

\* C19: while no task is selected for editing the edit draft is empty.
C19_NoDraftWithoutEdit ==
    editingId = Null => editText = <<>>

\* the draft " b " was typed and the blur of the edit input has saved it and
\* ended the edit
C19_Witness ==
    /\ last.op = "blur" /\ last.toast = ToastUpdated
    /\ last.was # Null /\ last.wasText = <<" ", "b", " ">>
    /\ editingId = Null /\ editText = <<>>

====
